---- MODULE Spec2Model ----
(***************************************************************************)
(* Time based volume control (TBC-volume-control.ino) and the Music        *)
(* Construction Machine controller (the second sketch of the repository,   *)
(* src/unnamed/part_000, called MCMC here).  Both sketches share           *)
(* set_volume_to_current_time and smooth_servo; MCMC adds                  *)
(* auto_off_at_night and measure_crank_speed.                              *)
(***************************************************************************)
EXTENDS Integers, Sequences, FiniteSets, TLC

VARIABLES
  variant,                 \* which sketch runs: "TBC" or "MCMC"
  day_hour, day_minute, day_volume,
  evening_hour, evening_minute, evening_volume,
  night_hour, night_minute, night_volume,
  now_hour, now_minute,    \* what rtc.now() returned to the last reader
  volume, match_time,
  scan_steps,              \* iterations of the while loop in the last scan
  desired_servo_pos, p_desired_servo_pos, servo_pos, detach_timeout,
  attached,                \* the Servo object drives its pin
  angle,                   \* the last value given to myservo.write, -1: none
  call,                    \* the last call of smooth_servo: its arguments and
                           \* what it did
  pre,                     \* the servo state before the last call
  run_start, run_calls, run_mode,   \* the calls with the present target
  since_reach, reach_moved,         \* the calls since the target was reached
  stable_ticks,            \* the passes of loop() in a row that ended with
                           \* the present period and configuration
  off_delay, rpm_thresh,
  rotation, rotation_trigger, crank_time, p_crank_time, ms_per_rotation,
  crank_speed_limit_count,
  lock_i,                  \* the variable i of the waiting loop of the lockout
  millis,                  \* the clock millis() reads
  clutch, mixer, light,    \* the outputs on pins 10, 8 and 7
  switch, p_switch,        \* the rotation switch as read by the last two
                           \* evaluations ("none": not read yet)
  p_count,                 \* crank_speed_limit_count before the last step
  trig_log,                \* for each rotation trigger since the last lockout
                           \* ended, whether it came less than rpm_thresh
                           \* after the trigger before it (the last 5)
  gov_step,                \* the last step of the governor
  lockouts,                \* the lockouts that have ended
  eeprom,                  \* the cells of the EEPROM the sketches use
  pc                       \* position of the program

cfgVars == <<variant, day_hour, day_minute, day_volume,
             evening_hour, evening_minute, evening_volume,
             night_hour, night_minute, night_volume>>
rtcVars == <<now_hour, now_minute>>
matchVars == <<volume, match_time, scan_steps>>
servoVars == <<desired_servo_pos, p_desired_servo_pos, servo_pos,
               detach_timeout, attached, angle>>
runObs == <<run_start, run_calls, run_mode, since_reach, reach_moved>>
servoObs == <<call, pre, runObs>>
govCfg == <<off_delay, rpm_thresh>>
govVars == <<rotation, rotation_trigger, crank_time, p_crank_time,
             ms_per_rotation, crank_speed_limit_count, lock_i, millis>>
outVars == <<clutch, mixer, light>>
govObs == <<switch, p_switch, p_count, trig_log, gov_step, lockouts>>
govAll == <<govCfg, govVars, outVars, govObs>>
vars == <<cfgVars, rtcVars, matchVars, servoVars, servoObs, stable_ticks,
          govAll, eeprom, pc>>

(***************************************************************************)
(* Program constants                                                       *)
(***************************************************************************)
DAY == 1
EVENING == 2
NIGHT == 3
LastHour == 23
LastMinute == 59
UnsetByte == 255
PosMax == 100            \* destination ranges from 0 to 100
DetachAt == 50           \* detach_timeout == 50
IdleLimit == 51          \* detach_timeout < 51
AngleAtZero == 170       \* map(servo_pos, 0, 100, 170, 28)
AngleAtMax == 28
LockoutAt == 5           \* crank_speed_limit_count >= 5
SecondMs == 1000         \* delay(1000)
\* EEPROM memory locations; cell 16 holds the night volume in TBC and the
\* lockout time in MCMC
DAY_HOUR == 0
DAY_MINUTE == 2
DAY_VOLUME == 4
EVENING_HOUR == 6
EVENING_MINUTE == 8
EVENING_VOLUME == 10
NIGHT_HOUR == 12
NIGHT_MINUTE == 14
NIGHT_VOLUME == 16
OFF_DELAY == 16
RPM_THRESH == 18
ByteValues == 256        \* a cell holds one byte

Variants == {"TBC", "MCMC"}

(***************************************************************************)
(* Input sets of the model                                                 *)
(***************************************************************************)
\* trigger times an entry is configured with: <<hour, minute>>; the last one
\* is an erased EEPROM cell pair
EntryTimes == {<<0, 0>>, <<8, 0>>, <<18, 0>>, <<23, 0>>, <<UnsetByte, UnsetByte>>}
\* times the clock is read at
NowHours == {0, 7, 8, 20}
NowMinutes == {0, 15, 59}
DayVolumes == {80}
EveningVolumes == {40}
NightVolumes == {0}
\* what volume holds from earlier calls
OldVolumes == {0, 55}
\* what match_time holds from earlier calls (0: no call yet)
OldMatchTimes == {0, EVENING}
\* destinations smooth_servo is called with
Targets == {0, 1, 50, 100}
\* the counters of the observers stop counting here
MaxRunCalls == 102
MaxSince == 52
MaxStable == 101
\* loop(): the trigger times the menu sets and the times the clock is read at
LoopDayTimes == {<<18, 0>>}
LoopEveningTimes == {<<18, 0>>, <<18, 1>>}
LoopNightTimes == {<<18, 2>>}
LoopNow == {<<18, 0>>, <<18, 1>>, <<18, 2>>}
\* measure_crank_speed: the time between two evaluations, the threshold and
\* the lockout time loaded by setup(), and the last time an evaluation starts
TickMs == {40, 60}
Thresholds == {100}
OffDelays == {0, 1, 2}
MaxMillis == 500
\* loop() of MCMC: the time between two passes
McmcTickMs == {40}
\* the observer of the lockouts stops counting here
MaxLockouts == 2
\* the values committed in the menus when the store is followed over reboots:
\* the ends of the ranges the menus read, and the values around one byte
StoreDayTimes == {<<0, 0>>, <<LastHour, LastMinute>>}
StoreEveningTimes == {<<18, 0>>}
StoreNightTimes == {<<LastHour, 0>>}
StoreVolumes == {0, PosMax}
StoreThresholds == {100, 255, 256, 2000}
StoreDelays == {1, 256, 999}
\* the volumes read in the volume menus of Day, Evening and Night
DayEdits == {100}
EveningEdits == {40}
NightEdits == {0}

ValidTime(h, m) == h \in 0..LastHour /\ m \in 0..LastMinute

(***************************************************************************)
(* EEPROM                                                                  *)
(***************************************************************************)
Cells == {DAY_HOUR, DAY_MINUTE, DAY_VOLUME, EVENING_HOUR, EVENING_MINUTE,
          EVENING_VOLUME, NIGHT_HOUR, NIGHT_MINUTE, NIGHT_VOLUME, RPM_THRESH}

\* EEPROM.write(cell, value): the value is converted to uint8_t
EepromWrite(e, cell, value) == [e EXCEPT ![cell] = value % ByteValues]

\* EEPROM.read(cell)
EepromRead(e, cell) == e[cell]

\* the cells as the present configuration was read from them
StoreImage ==
  [c \in Cells |->
     IF c = DAY_HOUR THEN day_hour
     ELSE IF c = DAY_MINUTE THEN day_minute
     ELSE IF c = DAY_VOLUME THEN day_volume
     ELSE IF c = EVENING_HOUR THEN evening_hour
     ELSE IF c = EVENING_MINUTE THEN evening_minute
     ELSE IF c = EVENING_VOLUME THEN evening_volume
     ELSE IF c = NIGHT_HOUR THEN night_hour
     ELSE IF c = NIGHT_MINUTE THEN night_minute
     ELSE IF c = NIGHT_VOLUME
          THEN (IF variant = "TBC" THEN night_volume ELSE off_delay)
     ELSE IF variant = "TBC" THEN UnsetByte ELSE rpm_thresh]

(***************************************************************************)
(* set_volume_to_current_time                                              *)
(***************************************************************************)
\* mutant: an else-if chain, the first matching entry wins
MatchEntries_FirstWins(s) ==
  IF s.scan_hour = day_hour /\ s.scan_minute = day_minute
  THEN [s EXCEPT !.volume = day_volume, !.match_time = DAY]
  ELSE IF s.scan_hour = evening_hour /\ s.scan_minute = evening_minute
  THEN [s EXCEPT !.volume = evening_volume, !.match_time = EVENING]
  ELSE IF s.scan_hour = night_hour /\ s.scan_minute = night_minute
  THEN IF variant = "TBC"
       THEN [s EXCEPT !.volume = night_volume, !.match_time = NIGHT]
       ELSE [s EXCEPT !.match_time = NIGHT]
  ELSE s

\* mutant: Evening is tested after Night
MatchEntries_EveningLast(s) ==
  LET s1 == IF s.scan_hour = day_hour /\ s.scan_minute = day_minute
            THEN [s EXCEPT !.volume = day_volume, !.match_time = DAY]
            ELSE s
      s2 == IF s1.scan_hour = night_hour /\ s1.scan_minute = night_minute
            THEN IF variant = "TBC"
                 THEN [s1 EXCEPT !.volume = night_volume, !.match_time = NIGHT]
                 ELSE [s1 EXCEPT !.match_time = NIGHT]
            ELSE s1
      s3 == IF s2.scan_hour = evening_hour /\ s2.scan_minute = evening_minute
            THEN [s2 EXCEPT !.volume = evening_volume, !.match_time = EVENING]
            ELSE s2
  IN s3

\* mutant: Night assigns its volume in MCMC as it does in TBC
MatchEntries_NightSetsVolume(s) ==
  LET s1 == IF s.scan_hour = day_hour /\ s.scan_minute = day_minute
            THEN [s EXCEPT !.volume = day_volume, !.match_time = DAY]
            ELSE s
      s2 == IF s1.scan_hour = evening_hour /\ s1.scan_minute = evening_minute
            THEN [s1 EXCEPT !.volume = evening_volume, !.match_time = EVENING]
            ELSE s1
      s3 == IF s2.scan_hour = night_hour /\ s2.scan_minute = night_minute
            THEN [s2 EXCEPT !.volume = night_volume, !.match_time = NIGHT]
            ELSE s2
  IN s3

\* the three tests of one loop iteration, in the order of the code; each is
\* an independent if, so a later one overwrites an earlier one
MatchEntries(s) ==
  LET s1 == IF s.scan_hour = day_hour /\ s.scan_minute = day_minute
            THEN [s EXCEPT !.volume = day_volume, !.match_time = DAY]
            ELSE s
      s2 == IF s1.scan_hour = evening_hour /\ s1.scan_minute = evening_minute
            THEN [s1 EXCEPT !.volume = evening_volume, !.match_time = EVENING]
            ELSE s1
      s3 == IF s2.scan_hour = night_hour /\ s2.scan_minute = night_minute
            THEN IF variant = "TBC"
                 THEN [s2 EXCEPT !.volume = night_volume, !.match_time = NIGHT]
                 ELSE [s2 EXCEPT !.match_time = NIGHT]
            ELSE s2
  IN s3

\* mutant: the scan runs forward in time
StepBack_Forward(s) ==
  IF s.scan_minute < LastMinute
  THEN [s EXCEPT !.scan_minute = s.scan_minute + 1]
  ELSE IF s.scan_hour < LastHour
       THEN [s EXCEPT !.scan_minute = 0, !.scan_hour = s.scan_hour + 1]
       ELSE [s EXCEPT !.scan_minute = 0, !.scan_hour = 0]

\* mutant: the hour wraps to 24, one past the last hour
StepBack_WrapsTo24(s) ==
  IF s.scan_minute > 0
  THEN [s EXCEPT !.scan_minute = s.scan_minute - 1]
  ELSE IF s.scan_hour > 0
       THEN [s EXCEPT !.scan_minute = LastMinute, !.scan_hour = s.scan_hour - 1]
       ELSE [s EXCEPT !.scan_minute = LastMinute, !.scan_hour = LastHour + 1]

\* one minute back, wrapping the minute at 0 and the hour at 0
StepBack(s) ==
  IF s.scan_minute > 0
  THEN [s EXCEPT !.scan_minute = s.scan_minute - 1]
  ELSE IF s.scan_hour > 0
       THEN [s EXCEPT !.scan_minute = LastMinute, !.scan_hour = s.scan_hour - 1]
       ELSE [s EXCEPT !.scan_minute = LastMinute, !.scan_hour = LastHour]

\* the body of while (!match_time)
ScanBody(s) ==
  LET t == StepBack(MatchEntries(s))
  IN [t EXCEPT !.steps = t.steps + 1]

\* while (!match_time) { body }, run for at most n iterations
RECURSIVE ScanChunk(_, _)
ScanChunk(s, n) ==
  IF s.match_time # 0 \/ n = 0 THEN s ELSE ScanChunk(ScanBody(s), n - 1)

\* the same loop, run for at most k chunks of one hour of minutes each (the
\* evaluation is split in chunks only to keep the recursion shallow)
RECURSIVE ScanLoop(_, _)
ScanLoop(s, k) ==
  IF s.match_time # 0 \/ k = 0 THEN s
  ELSE ScanLoop(ScanChunk(s, LastMinute + 1), k - 1)

\* mutant: match_time is not reset before the loop
ScanResult_NoReset(h, m, v) ==
  ScanLoop([scan_hour |-> h, scan_minute |-> m, match_time |-> match_time,
            volume |-> v, steps |-> 0], LastHour + 1)

\* The state of the scan when the loop has ended or, with match_time = 0,
\* after a whole day of minutes: the scan is then back at the minute it
\* started from with nothing changed, and the loop never ends.
ScanResult(h, m, v) ==
  ScanLoop([scan_hour |-> h, scan_minute |-> m, match_time |-> 0,
            volume |-> v, steps |-> 0], LastHour + 1)

(***************************************************************************)
(* smooth_servo                                                            *)
(***************************************************************************)
Abs(x) == IF x < 0 THEN 0 - x ELSE x
Max(a, b) == IF a > b THEN a ELSE b
Min(a, b) == IF a < b THEN a ELSE b

\* integer division of C: the quotient is truncated toward zero
TruncDiv(a, b) ==
  IF (a >= 0) = (b > 0) THEN Abs(a) \div Abs(b) ELSE 0 - (Abs(a) \div Abs(b))

\* mutant: the output range is not inverted
ArduinoMap_NotInverted(x, in_min, in_max, out_min, out_max) ==
  TruncDiv((x - in_min) * (out_min - out_max), in_max - in_min) + out_max

\* map() of the Arduino core
ArduinoMap(x, in_min, in_max, out_min, out_max) ==
  TruncDiv((x - in_min) * (out_max - out_min), in_max - in_min) + out_min

\* mutant: the servo is attached only when it has to move
AttachBlock_OnlyToMove(sv) ==
  IF sv.desired_servo_pos # sv.p_desired_servo_pos
  THEN IF sv.desired_servo_pos # sv.servo_pos
       THEN [sv EXCEPT !.attached = TRUE,
                       !.p_desired_servo_pos = sv.desired_servo_pos,
                       !.detach_timeout = 0,
                       !.attach_called = TRUE]
       ELSE [sv EXCEPT !.p_desired_servo_pos = sv.desired_servo_pos]
  ELSE sv

\* if (desired_servo_pos != p_desired_servo_pos) { attach; ...; detach_timeout=0 }
AttachBlock(sv) ==
  IF sv.desired_servo_pos # sv.p_desired_servo_pos
  THEN [sv EXCEPT !.attached = TRUE,
                  !.p_desired_servo_pos = sv.desired_servo_pos,
                  !.detach_timeout = 0,
                  !.attach_called = TRUE]
  ELSE sv

\* mutant: two units per call while the target is two or more away
MovedPos_TwoUnits(pos, desired, direct_access) ==
  IF direct_access = 1 THEN desired
  ELSE IF desired > pos THEN Min(pos + 2, desired)
  ELSE IF desired < pos THEN Max(pos - 2, desired)
  ELSE pos

\* mutant: the step down is lost, a gradual call only moves up
MovedPos_NeverDown(pos, desired, direct_access) ==
  IF direct_access = 1 THEN desired
  ELSE IF desired > pos THEN pos + 1 ELSE pos

\* mutant: the mode is ignored, every call snaps to the target
MovedPos_AlwaysSnaps(pos, desired, direct_access) == desired

\* the new servo_pos of the block if (desired_servo_pos != servo_pos) { ... }:
\* three independent ifs, in the order of the code
MovedPos(pos, desired, direct_access) ==
  LET p1 == IF desired > pos THEN pos + 1 ELSE pos
      p2 == IF desired < p1 THEN p1 - 1 ELSE p1
  IN IF direct_access = 1 THEN desired ELSE p2

\* mutant: arriving at the target does not step the idle counter
MoveBlock_NoCount(sv, direct_access) ==
  IF sv.desired_servo_pos # sv.servo_pos
  THEN LET p == IF direct_access = 1 THEN sv.desired_servo_pos
                ELSE IF sv.desired_servo_pos > sv.servo_pos
                     THEN sv.servo_pos + 1 ELSE sv.servo_pos - 1
       IN [sv EXCEPT !.servo_pos = p,
                     !.angle = TruncDiv(p * (AngleAtMax - AngleAtZero), PosMax)
                                  + AngleAtZero,
                     !.write_called = TRUE]
  ELSE sv

\* if (desired_servo_pos != servo_pos) { move; count; write }
MoveBlock(sv, direct_access) ==
  IF sv.desired_servo_pos # sv.servo_pos
  THEN LET p == MovedPos(sv.servo_pos, sv.desired_servo_pos, direct_access)
       IN [sv EXCEPT !.servo_pos = p,
                     !.detach_timeout =
                        IF sv.desired_servo_pos = p
                        THEN sv.detach_timeout + 1 ELSE sv.detach_timeout,
                     !.angle = ArduinoMap(p, 0, PosMax, AngleAtZero, AngleAtMax),
                     !.write_called = TRUE]
  ELSE sv

\* mutant: the idle counter counts on without a limit
IdleBlock_NoLimit(sv) ==
  IF sv.desired_servo_pos = sv.servo_pos
  THEN [sv EXCEPT !.detach_timeout = sv.detach_timeout + 1]
  ELSE sv

\* mutant: the idle counter also counts while the servo moves
IdleBlock_CountsAlways(sv) ==
  IF sv.detach_timeout < IdleLimit
  THEN [sv EXCEPT !.detach_timeout = sv.detach_timeout + 1]
  ELSE sv

\* if (desired_servo_pos == servo_pos && detach_timeout < 51) detach_timeout++
IdleBlock(sv) ==
  IF sv.desired_servo_pos = sv.servo_pos /\ sv.detach_timeout < IdleLimit
  THEN [sv EXCEPT !.detach_timeout = sv.detach_timeout + 1]
  ELSE sv

\* mutant: detach on every call with the counter at 50 or more
DetachBlock_AtLeast(sv) ==
  IF sv.detach_timeout >= DetachAt
  THEN [sv EXCEPT !.attached = FALSE, !.detach_called = TRUE]
  ELSE sv

\* if (detach_timeout == 50) myservo.detach()
DetachBlock(sv) ==
  IF sv.detach_timeout = DetachAt
  THEN [sv EXCEPT !.attached = FALSE, !.detach_called = TRUE]
  ELSE sv

\* the servo state as a record, with what a call did to the Servo object
ServoState ==
  [desired_servo_pos |-> desired_servo_pos,
   p_desired_servo_pos |-> p_desired_servo_pos,
   servo_pos |-> servo_pos,
   detach_timeout |-> detach_timeout,
   attached |-> attached,
   angle |-> angle,
   attach_called |-> FALSE, detach_called |-> FALSE, write_called |-> FALSE,
   timeout_after_attach |-> detach_timeout]

\* smooth_servo(destination, direct_access) from the servo state sv
SmoothServo(sv, destination, direct_access) ==
  LET a == AttachBlock([sv EXCEPT !.desired_servo_pos = destination])
      b == [a EXCEPT !.timeout_after_attach = a.detach_timeout]
  IN DetachBlock(IdleBlock(MoveBlock(b, direct_access)))

\* the values of the variables after the call that yields r, and the record
\* of the call
ServoCallSets(r, destination, direct_access) ==
  /\ desired_servo_pos' = r.desired_servo_pos
  /\ p_desired_servo_pos' = r.p_desired_servo_pos
  /\ servo_pos' = r.servo_pos
  /\ detach_timeout' = r.detach_timeout
  /\ attached' = r.attached
  /\ angle' = r.angle
  /\ call' = [destination |-> destination, direct_access |-> direct_access,
              attach_called |-> r.attach_called,
              detach_called |-> r.detach_called,
              write_called |-> r.write_called,
              timeout_after_attach |-> r.timeout_after_attach]
  /\ pre' = [servo_pos |-> servo_pos, detach_timeout |-> detach_timeout,
             attached |-> attached,
             p_desired_servo_pos |-> p_desired_servo_pos]

\* the observers of the runs of calls, stepped with a call
ServoRunObserved(r, destination, direct_access) ==
  \* the run of calls with one target: where it started, how many calls,
  \* and whether all of them were gradual, all immediate, or mixed
  /\ LET new == destination # call.destination
         mode == IF direct_access = 1 THEN "immediate" ELSE "gradual"
         mixed == ~new /\ run_mode # mode
     IN /\ run_mode' = IF mixed THEN "mixed" ELSE mode
        /\ run_start' = IF mixed THEN -1 ELSE IF new THEN servo_pos ELSE run_start
        /\ run_calls' = IF mixed THEN 0
                        ELSE IF new THEN 1 ELSE Min(run_calls + 1, MaxRunCalls)
  \* the calls since the call that brought (or found) servo_pos at the target
  /\ LET arrives == \/ destination # call.destination
                    \/ servo_pos # destination
                    \/ since_reach = -1
     IN /\ since_reach' = IF r.servo_pos # destination THEN -1
                          ELSE IF arrives THEN 0
                          ELSE Min(since_reach + 1, MaxSince)
        /\ reach_moved' = IF r.servo_pos # destination THEN FALSE
                          ELSE IF arrives THEN servo_pos # destination
                          ELSE reach_moved

\* a call of smooth_servo with the runs of calls observed
SmoothServoCallObserved(destination, direct_access) ==
  \E r \in {SmoothServo(ServoState, destination, direct_access)} :
    /\ ServoCallSets(r, destination, direct_access)
    /\ ServoRunObserved(r, destination, direct_access)

\* a call of smooth_servo
SmoothServoCall(destination, direct_access) ==
  \E r \in {SmoothServo(ServoState, destination, direct_access)} :
    /\ ServoCallSets(r, destination, direct_access)
    /\ UNCHANGED runObs

\* the globals are zero at start, the Servo object is not attached
InitServo ==
  /\ desired_servo_pos = 0 /\ p_desired_servo_pos = 0
  /\ servo_pos = 0 /\ detach_timeout = 0
  /\ attached = FALSE /\ angle = -1
  /\ call = [destination |-> 0, direct_access |-> 0,
             attach_called |-> FALSE, detach_called |-> FALSE,
             write_called |-> FALSE, timeout_after_attach |-> 0]
  /\ pre = [servo_pos |-> 0, detach_timeout |-> 0, attached |-> FALSE,
            p_desired_servo_pos |-> 0]
  /\ run_start = 0 /\ run_calls = 0 /\ run_mode = "gradual"
  /\ since_reach = -1 /\ reach_moved = FALSE

(***************************************************************************)
(* measure_crank_speed (MCMC)                                              *)
(***************************************************************************)
\* the governor state as a record
GovState ==
  [rotation |-> rotation, rotation_trigger |-> rotation_trigger,
   crank_time |-> crank_time, p_crank_time |-> p_crank_time,
   ms_per_rotation |-> ms_per_rotation,
   crank_speed_limit_count |-> crank_speed_limit_count]

\* mutant: level-triggered, every evaluation with the switch closed triggers
SwitchBlock_LevelTriggered(g, sw) ==
  IF sw = "closed"
  THEN [g EXCEPT !.rotation = 1, !.rotation_trigger = 1]
  ELSE [g EXCEPT !.rotation = 0, !.rotation_trigger = 0]

\* the trigger: rotation_trigger = 0; if (!ROTATION_SWITCH) { if (rotation == 0)
\* { rotation = 1; rotation_trigger = 1; } } else { rotation = 0; }
SwitchBlock(g, sw) ==
  IF sw = "closed"
  THEN IF g.rotation = 0
       THEN [g EXCEPT !.rotation = 1, !.rotation_trigger = 1]
       ELSE [g EXCEPT !.rotation_trigger = 0]
  ELSE [g EXCEPT !.rotation = 0, !.rotation_trigger = 0]

\* mutant: an interval equal to the threshold counts as too fast
CountedRotation_OrEqual(count, ms, thresh) ==
  IF ms <= thresh THEN count + 1 ELSE 0

\* if (ms_per_rotation < rpm_thresh) crank_speed_limit_count++; else
\* crank_speed_limit_count = 0;
CountedRotation(count, ms, thresh) ==
  IF ms < thresh THEN count + 1 ELSE 0

\* if (rotation_trigger == 1) { times; count }, with millis() reading now
TimeBlock(g, now) ==
  IF g.rotation_trigger = 1
  THEN [g EXCEPT !.p_crank_time = g.crank_time,
                 !.crank_time = now,
                 !.ms_per_rotation = now - g.crank_time,
                 !.crank_speed_limit_count =
                    CountedRotation(g.crank_speed_limit_count,
                                    now - g.crank_time, rpm_thresh)]
  ELSE g

\* mutant: the lockout needs more than five fast rotations
LockoutDue_MoreThanFive(count) == count > LockoutAt

\* mutant: the lockout is due only on the count of exactly six
LockoutDue_AtSix(count) == count = LockoutAt + 1

\* if (crank_speed_limit_count >= 5)
LockoutDue(count) == count >= LockoutAt

\* mutant: at night only the clutch is switched off
AutoOffAtNight_ClutchOnly(mt) ==
  IF mt = NIGHT
  THEN [clutch |-> "off", mixer |-> mixer, light |-> light]
  ELSE IF mt = DAY \/ mt = EVENING
  THEN [clutch |-> "on", mixer |-> "on", light |-> "on"]
  ELSE [clutch |-> clutch, mixer |-> mixer, light |-> light]

\* mutant: in Day and Evening the clutch is left as it is
AutoOffAtNight_NoMechOn(mt) ==
  IF mt = NIGHT
  THEN [clutch |-> "off", mixer |-> "off", light |-> "off"]
  ELSE IF mt = DAY \/ mt = EVENING
  THEN [clutch |-> clutch, mixer |-> "on", light |-> "on"]
  ELSE [clutch |-> clutch, mixer |-> mixer, light |-> light]

\* the outputs after auto_off_at_night() with the period mt
AutoOffAtNight(mt) ==
  IF mt = NIGHT
  THEN [clutch |-> "off", mixer |-> "off", light |-> "off"]
  ELSE IF mt = DAY \/ mt = EVENING
  THEN [clutch |-> "on", mixer |-> "on", light |-> "on"]
  ELSE [clutch |-> clutch, mixer |-> mixer, light |-> light]

\* mutant: the lockout also switches the mixer and the light off
MeasureCrankSpeed_CutsPower(sw, dt, out) ==
  \E g \in {TimeBlock(SwitchBlock(GovState, sw), millis + dt)} :
    /\ millis' = millis + dt
    /\ rotation' = g.rotation
    /\ rotation_trigger' = g.rotation_trigger
    /\ crank_time' = g.crank_time
    /\ p_crank_time' = g.p_crank_time
    /\ ms_per_rotation' = g.ms_per_rotation
    /\ crank_speed_limit_count' = g.crank_speed_limit_count
    /\ IF LockoutDue(g.crank_speed_limit_count)
       THEN /\ clutch' = "off" /\ mixer' = "off" /\ light' = "off"
            /\ lock_i' = off_delay
            /\ pc' = "lockout"
       ELSE /\ clutch' = out.clutch /\ mixer' = out.mixer /\ light' = out.light
            /\ UNCHANGED lock_i
            /\ pc' = "loop"
    /\ switch' = sw
    /\ p_switch' = switch
    /\ p_count' = crank_speed_limit_count
    /\ gov_step' = "eval"
    /\ UNCHANGED lockouts
    /\ trig_log' =
         IF sw = "closed" /\ switch # "closed"
         THEN LET l == Append(trig_log, (millis + dt) - crank_time < rpm_thresh)
              IN IF Len(l) > LockoutAt THEN Tail(l) ELSE l
         ELSE trig_log

\* One evaluation of measure_crank_speed, dt after the step before, reading
\* the switch as sw, with the outputs as out before it.  When the lockout is
\* due the clutch is switched off and the program enters the waiting loop
\* with i = off_delay.
MeasureCrankSpeed(sw, dt, out) ==
  \E g \in {TimeBlock(SwitchBlock(GovState, sw), millis + dt)} :
    /\ millis' = millis + dt
    /\ rotation' = g.rotation
    /\ rotation_trigger' = g.rotation_trigger
    /\ crank_time' = g.crank_time
    /\ p_crank_time' = g.p_crank_time
    /\ ms_per_rotation' = g.ms_per_rotation
    /\ crank_speed_limit_count' = g.crank_speed_limit_count
    /\ IF LockoutDue(g.crank_speed_limit_count)
       THEN /\ clutch' = "off"
            /\ lock_i' = off_delay
            /\ pc' = "lockout"
       ELSE /\ clutch' = out.clutch
            /\ UNCHANGED lock_i
            /\ pc' = "loop"
    /\ mixer' = out.mixer
    /\ light' = out.light
    \* observers
    /\ switch' = sw
    /\ p_switch' = switch
    /\ p_count' = crank_speed_limit_count
    /\ gov_step' = "eval"
    /\ UNCHANGED lockouts
    /\ trig_log' =
         IF sw = "closed" /\ switch # "closed"
         THEN LET l == Append(trig_log, (millis + dt) - crank_time < rpm_thresh)
              IN IF Len(l) > LockoutAt THEN Tail(l) ELSE l
         ELSE trig_log

\* mutant: the waiting loop is left after its first pass
LockoutWait_SkipsRest ==
  /\ pc = "lockout"
  /\ lock_i > 0
  /\ lock_i' = 0
  /\ millis' = millis + SecondMs
  /\ gov_step' = "wait"
  /\ p_count' = crank_speed_limit_count
  /\ UNCHANGED <<rotation, rotation_trigger, crank_time, p_crank_time,
                 ms_per_rotation, crank_speed_limit_count, outVars,
                 switch, p_switch, trig_log, lockouts, pc>>

\* mutant: the switch is sampled in the waiting loop
LockoutWait_SamplesSwitch ==
  /\ pc = "lockout"
  /\ lock_i > 0
  /\ lock_i' = lock_i - 1
  /\ millis' = millis + SecondMs
  /\ gov_step' = "wait"
  /\ p_count' = crank_speed_limit_count
  /\ rotation' = 0
  /\ UNCHANGED <<rotation_trigger, crank_time, p_crank_time,
                 ms_per_rotation, crank_speed_limit_count, outVars,
                 switch, p_switch, trig_log, lockouts, pc>>

\* one pass of for (int i = off_delay; i > 0; i--) { ...; delay(1000); }
LockoutWait ==
  /\ pc = "lockout"
  /\ lock_i > 0
  /\ lock_i' = lock_i - 1
  /\ millis' = millis + SecondMs
  /\ gov_step' = "wait"
  /\ p_count' = crank_speed_limit_count
  /\ UNCHANGED <<rotation, rotation_trigger, crank_time, p_crank_time,
                 ms_per_rotation, crank_speed_limit_count, outVars,
                 switch, p_switch, trig_log, lockouts, pc>>

\* mutant: the count is not reset when the lockout ends
LockoutEnd_KeepsCount ==
  /\ pc = "lockout"
  /\ lock_i = 0
  /\ pc' = "loop"
  /\ gov_step' = "reset"
  /\ p_count' = crank_speed_limit_count
  /\ trig_log' = <<>>
  /\ lockouts' = Min(lockouts + 1, MaxLockouts)
  /\ UNCHANGED <<rotation, rotation_trigger, crank_time, p_crank_time,
                 ms_per_rotation, crank_speed_limit_count, lock_i, millis,
                 outVars, switch, p_switch>>

\* the loop is left: lcd.clear(); crank_speed_limit_count = 0;
LockoutEnd ==
  /\ pc = "lockout"
  /\ lock_i = 0
  /\ crank_speed_limit_count' = 0
  /\ pc' = "loop"
  /\ gov_step' = "reset"
  /\ p_count' = crank_speed_limit_count
  /\ trig_log' = <<>>
  /\ lockouts' = Min(lockouts + 1, MaxLockouts)
  /\ UNCHANGED <<rotation, rotation_trigger, crank_time, p_crank_time,
                 ms_per_rotation, lock_i, millis, outVars, switch, p_switch>>

\* the globals are zero at start; setup() switches mixer and light on and
\* leaves the clutch pin low
InitGov ==
  /\ rotation = 0 /\ rotation_trigger = 0
  /\ crank_time = 0 /\ p_crank_time = 0 /\ ms_per_rotation = 0
  /\ crank_speed_limit_count = 0
  /\ lock_i = 0 /\ millis = 0
  /\ clutch = "off" /\ mixer = "on" /\ light = "on"
  /\ switch = "none" /\ p_switch = "none"
  /\ p_count = 0 /\ trig_log = <<>> /\ gov_step = "none" /\ lockouts = 0

(***************************************************************************)
(* The matcher alone: setup() loads the entries, then the function is      *)
(* called again and again with the time it reads.                          *)
(***************************************************************************)
InitConfig ==
  /\ variant \in Variants
  /\ \E d \in EntryTimes, e \in EntryTimes, n \in EntryTimes :
       /\ day_hour = d[1] /\ day_minute = d[2]
       /\ evening_hour = e[1] /\ evening_minute = e[2]
       /\ night_hour = n[1] /\ night_minute = n[2]
  /\ day_volume \in DayVolumes
  /\ evening_volume \in EveningVolumes
  /\ night_volume \in (IF variant = "TBC" THEN NightVolumes ELSE {0})

InitMatch ==
  /\ InitConfig
  /\ now_hour = 0 /\ now_minute = 0
  /\ volume \in OldVolumes /\ match_time \in OldMatchTimes /\ scan_steps = 0
  /\ InitServo
  /\ stable_ticks = 0
  /\ InitGov /\ off_delay = 0 /\ rpm_thresh = 0
  /\ eeprom = StoreImage
  /\ pc = "call"

\* one call; with no entry matching any minute of the day the while loop
\* never ends and the program stays in it
MatchCall ==
  /\ pc = "call"
  /\ \E h \in NowHours, m \in NowMinutes :
       \E r \in {ScanResult(h, m, volume)} :
         /\ now_hour' = h
         /\ now_minute' = m
         /\ match_time' = r.match_time
         /\ volume' = r.volume
         /\ scan_steps' = r.steps
         /\ pc' = IF r.match_time = 0 THEN "hung" ELSE "done"
  /\ UNCHANGED <<cfgVars, servoVars, servoObs, stable_ticks, govAll, eeprom>>

NextMatch == MatchCall

SpecMatch == InitMatch /\ [][NextMatch]_vars

(***************************************************************************)
(* smooth_servo alone: called again and again, with any destination and    *)
(* either mode, as loop() (gradual) and the volume menus (immediate) do.   *)
(***************************************************************************)
InitServoOnly ==
  /\ variant = "TBC"
  /\ day_hour = 8 /\ day_minute = 0 /\ day_volume \in DayVolumes
  /\ evening_hour = 18 /\ evening_minute = 0 /\ evening_volume \in EveningVolumes
  /\ night_hour = 23 /\ night_minute = 0 /\ night_volume \in NightVolumes
  /\ now_hour = 0 /\ now_minute = 0
  /\ volume = 0 /\ match_time = 0 /\ scan_steps = 0
  /\ InitServo
  /\ stable_ticks = 0
  /\ InitGov /\ off_delay = 0 /\ rpm_thresh = 0
  /\ eeprom = StoreImage
  /\ pc = "loop"

ServoCall ==
  /\ \E d \in Targets, m \in {0, 1} : SmoothServoCallObserved(d, m)
  /\ UNCHANGED <<cfgVars, rtcVars, matchVars, stable_ticks, govAll, eeprom,
                 pc>>

NextServo == ServoCall

SpecServo == InitServoOnly /\ [][NextServo]_vars

(***************************************************************************)
(* loop() of TBC: the menu the poti selects, then                          *)
(* set_volume_to_current_time() and smooth_servo(volume, 0).  A menu whose *)
(* button is not pressed only displays.  The volume menus block in a loop  *)
(* that reads a volume and calls smooth_servo(.., 1) until the button is   *)
(* pressed again; the trigger time menu blocks while it reads six values.  *)
(***************************************************************************)
\* the end of every pass: the scan with the time <<h, m>> read from the RTC,
\* then the gradual call; a scan that never ends keeps the program in it
LoopTail(h, m, changed) ==
  \E r \in {ScanResult(h, m, volume)} :
    /\ now_hour' = h
    /\ now_minute' = m
    /\ match_time' = r.match_time
    /\ volume' = r.volume
    /\ scan_steps' = r.steps
    /\ IF r.match_time = 0
       THEN /\ pc' = "hung"
            /\ stable_ticks' = 0
            /\ UNCHANGED <<servoVars, servoObs>>
       ELSE /\ pc' = "loop"
            /\ stable_ticks' = IF changed \/ r.match_time # match_time
                               THEN 1 ELSE Min(stable_ticks + 1, MaxStable)
            /\ SmoothServoCall(r.volume, 0)

\* a pass that changes no configuration
LoopTick ==
  /\ pc = "loop"
  /\ \E t \in LoopNow : LoopTail(t[1], t[2], FALSE)
  /\ UNCHANGED <<cfgVars, govAll, eeprom>>

\* set_volume_day / _evening / _night with the button pressed: the program
\* enters the loop while (!BUTTON1)
EnterVolumeMenu ==
  /\ pc = "loop"
  /\ pc' \in {"edit_day", "edit_evening", "edit_night"}
  /\ stable_ticks' = 0
  /\ UNCHANGED <<cfgVars, rtcVars, matchVars, servoVars, servoObs, govAll,
                 eeprom>>

\* one pass of while (!BUTTON1): the volume read from the poti, shown, and
\* given to the servo at once
EditVolume ==
  /\ pc \in {"edit_day", "edit_evening", "edit_night"}
  /\ \E v \in (IF pc = "edit_day" THEN DayEdits
               ELSE IF pc = "edit_evening" THEN EveningEdits ELSE NightEdits) :
       /\ day_volume' = IF pc = "edit_day" THEN v ELSE day_volume
       /\ evening_volume' = IF pc = "edit_evening" THEN v ELSE evening_volume
       /\ night_volume' = IF pc = "edit_night" THEN v ELSE night_volume
       /\ SmoothServoCall(v, 1)
  /\ stable_ticks' = 0
  /\ UNCHANGED <<variant, day_hour, day_minute, evening_hour, evening_minute,
                 night_hour, night_minute, rtcVars, matchVars, govAll, eeprom,
                 pc>>

\* the button ends the menu; the volume is saved and the pass goes on
LeaveVolumeMenu ==
  /\ pc \in {"edit_day", "edit_evening", "edit_night"}
  /\ eeprom' = IF pc = "edit_day"
               THEN EepromWrite(eeprom, DAY_VOLUME, day_volume)
               ELSE IF pc = "edit_evening"
               THEN EepromWrite(eeprom, EVENING_VOLUME, evening_volume)
               ELSE EepromWrite(eeprom, NIGHT_VOLUME, night_volume)
  /\ \E t \in LoopNow : LoopTail(t[1], t[2], TRUE)
  /\ UNCHANGED <<cfgVars, govAll>>

\* set_trigger_times with the button pressed: six values read and saved
SetTriggerTimes ==
  /\ pc = "loop"
  /\ \E d \in LoopDayTimes, e \in LoopEveningTimes, n \in LoopNightTimes :
       /\ day_hour' = d[1] /\ day_minute' = d[2]
       /\ evening_hour' = e[1] /\ evening_minute' = e[2]
       /\ night_hour' = n[1] /\ night_minute' = n[2]
       /\ eeprom' =
            EepromWrite(EepromWrite(EepromWrite(EepromWrite(EepromWrite(
              EepromWrite(eeprom, DAY_HOUR, d[1]), DAY_MINUTE, d[2]),
              EVENING_HOUR, e[1]), EVENING_MINUTE, e[2]),
              NIGHT_HOUR, n[1]), NIGHT_MINUTE, n[2])
  /\ \E t \in LoopNow : LoopTail(t[1], t[2], TRUE)
  /\ UNCHANGED <<variant, day_volume, evening_volume, night_volume, govAll>>

InitLoop ==
  /\ variant = "TBC"
  /\ \E d \in LoopDayTimes, e \in LoopEveningTimes, n \in LoopNightTimes :
       /\ day_hour = d[1] /\ day_minute = d[2]
       /\ evening_hour = e[1] /\ evening_minute = e[2]
       /\ night_hour = n[1] /\ night_minute = n[2]
  /\ day_volume \in DayVolumes
  /\ evening_volume \in EveningVolumes
  /\ night_volume \in NightVolumes
  /\ now_hour = 0 /\ now_minute = 0
  /\ volume = 0 /\ match_time = 0 /\ scan_steps = 0
  /\ InitServo
  /\ stable_ticks = 0
  /\ InitGov /\ off_delay = 0 /\ rpm_thresh = 0
  /\ eeprom = StoreImage
  /\ pc = "loop"

NextLoop ==
  \/ LoopTick
  \/ EnterVolumeMenu
  \/ EditVolume
  \/ LeaveVolumeMenu
  \/ SetTriggerTimes

SpecLoop == InitLoop /\ [][NextLoop]_vars

(***************************************************************************)
(* The governor in loop() of MCMC: auto_off_at_night() with the period the *)
(* scan of this pass gave, then measure_crank_speed() with the switch      *)
(* closed or open and some time gone since the pass before.                *)
(***************************************************************************)
InitGovOnly ==
  /\ variant = "MCMC"
  /\ day_hour = 8 /\ day_minute = 0 /\ day_volume \in DayVolumes
  /\ evening_hour = 18 /\ evening_minute = 0 /\ evening_volume \in EveningVolumes
  /\ night_hour = 23 /\ night_minute = 0 /\ night_volume = 0
  /\ now_hour = 0 /\ now_minute = 0
  /\ volume = 0 /\ match_time = 0 /\ scan_steps = 0
  /\ InitServo
  /\ stable_ticks = 0
  /\ InitGov
  /\ off_delay \in OffDelays
  /\ rpm_thresh \in Thresholds
  /\ eeprom = StoreImage
  /\ pc = "loop"

GovEvaluate ==
  /\ pc = "loop"
  \* the time spent outside the lockouts is bounded
  /\ millis <= MaxMillis + lockouts * off_delay * SecondMs
  /\ \E mt \in {DAY, EVENING, NIGHT} :
       /\ match_time' = mt
       /\ \E sw \in {"closed", "open"}, dt \in TickMs :
            MeasureCrankSpeed(sw, dt, AutoOffAtNight(mt))
  /\ UNCHANGED <<cfgVars, rtcVars, volume, scan_steps, servoVars, servoObs,
                 stable_ticks, govCfg, eeprom>>

GovLockoutWait ==
  /\ LockoutWait
  /\ UNCHANGED <<cfgVars, rtcVars, matchVars, servoVars, servoObs,
                 stable_ticks, govCfg, eeprom>>

GovLockoutEnd ==
  /\ LockoutEnd
  /\ UNCHANGED <<cfgVars, rtcVars, matchVars, servoVars, servoObs,
                 stable_ticks, govCfg, eeprom>>

NextGov == GovEvaluate \/ GovLockoutWait \/ GovLockoutEnd

SpecGov == InitGovOnly /\ [][NextGov]_vars

\* The waiting loop of the lockout is straight-line code inside
\* measure_crank_speed: once entered, each pass and the statements after the
\* loop are executed.
SpecGovFair ==
  SpecGov /\ WF_vars(GovLockoutWait) /\ WF_vars(GovLockoutEnd)

(***************************************************************************)
(* loop() of MCMC with the menu only displaying: the scan with the time    *)
(* read, smooth_servo(volume, 0), auto_off_at_night() and                  *)
(* measure_crank_speed(), whose lockout keeps the program in its loop.     *)
(***************************************************************************)
InitMcmc ==
  /\ variant = "MCMC"
  /\ day_hour = 18 /\ day_minute = 0 /\ day_volume \in DayVolumes
  /\ evening_hour = 18 /\ evening_minute = 1 /\ evening_volume \in EveningVolumes
  /\ night_hour = 18 /\ night_minute = 2 /\ night_volume = 0
  /\ now_hour = 0 /\ now_minute = 0
  /\ volume = 0 /\ match_time = 0 /\ scan_steps = 0
  /\ InitServo
  /\ stable_ticks = 0
  /\ InitGov
  /\ off_delay \in OffDelays
  /\ rpm_thresh \in Thresholds
  /\ eeprom = StoreImage
  /\ pc = "loop"

\* one pass of loop()
McmcTick ==
  /\ pc = "loop"
  /\ millis <= MaxMillis + lockouts * off_delay * SecondMs
  /\ \E t \in LoopNow :
       \E r \in {ScanResult(t[1], t[2], volume)} :
         /\ r.match_time # 0
         /\ now_hour' = t[1]
         /\ now_minute' = t[2]
         /\ match_time' = r.match_time
         /\ volume' = r.volume
         /\ scan_steps' = r.steps
         /\ SmoothServoCall(r.volume, 0)
         /\ \E sw \in {"closed", "open"}, dt \in McmcTickMs :
              MeasureCrankSpeed(sw, dt, AutoOffAtNight(r.match_time))
  /\ UNCHANGED <<cfgVars, stable_ticks, govCfg, eeprom>>

NextMcmc == McmcTick \/ GovLockoutWait \/ GovLockoutEnd

SpecMcmc == InitMcmc /\ [][NextMcmc]_vars

(***************************************************************************)
(* The configuration over reboots: the menus commit values to the EEPROM,  *)
(* setup() reads them back after a reset.                                  *)
(***************************************************************************)
\* set_crank_speed with the button pressed (MCMC): both values read from the
\* poti, then saved
StoreSetCrankSpeed ==
  /\ variant = "MCMC"
  /\ \E t \in StoreThresholds, d \in StoreDelays :
       /\ rpm_thresh' = t
       /\ off_delay' = d
       /\ eeprom' = EepromWrite(EepromWrite(eeprom, OFF_DELAY, d), RPM_THRESH, t)
  /\ pc' = "loop"
  /\ UNCHANGED <<cfgVars, rtcVars, matchVars, servoVars, servoObs,
                 stable_ticks, govVars, outVars, govObs>>

\* set_trigger_times with the button pressed: six values read, then saved
StoreSetTriggerTimes ==
  /\ \E d \in StoreDayTimes, e \in StoreEveningTimes, n \in StoreNightTimes :
       /\ day_hour' = d[1] /\ day_minute' = d[2]
       /\ evening_hour' = e[1] /\ evening_minute' = e[2]
       /\ night_hour' = n[1] /\ night_minute' = n[2]
       /\ eeprom' =
            EepromWrite(EepromWrite(EepromWrite(EepromWrite(EepromWrite(
              EepromWrite(eeprom, DAY_HOUR, d[1]), DAY_MINUTE, d[2]),
              EVENING_HOUR, e[1]), EVENING_MINUTE, e[2]),
              NIGHT_HOUR, n[1]), NIGHT_MINUTE, n[2])
  /\ pc' = "loop"
  /\ UNCHANGED <<variant, day_volume, evening_volume, night_volume, rtcVars,
                 matchVars, servoVars, servoObs, stable_ticks, govAll>>

\* set_volume_day / _evening (and _night in TBC) with the button pressed: the
\* volume read from the poti and given to the servo at once, then saved
StoreSetVolume ==
  /\ \E p \in (IF variant = "TBC" THEN {DAY, EVENING, NIGHT} ELSE {DAY, EVENING}),
        v \in StoreVolumes :
       /\ day_volume' = IF p = DAY THEN v ELSE day_volume
       /\ evening_volume' = IF p = EVENING THEN v ELSE evening_volume
       /\ night_volume' = IF p = NIGHT THEN v ELSE night_volume
       /\ SmoothServoCall(v, 1)
       /\ eeprom' = EepromWrite(eeprom,
                       IF p = DAY THEN DAY_VOLUME
                       ELSE IF p = EVENING THEN EVENING_VOLUME ELSE NIGHT_VOLUME,
                       v)
  /\ pc' = "loop"
  /\ UNCHANGED <<variant, day_hour, day_minute, evening_hour, evening_minute,
                 night_hour, night_minute, rtcVars, matchVars, stable_ticks,
                 govAll>>

\* a reset: the globals are zero again and setup() reads the configuration
Setup ==
  /\ day_hour' = EepromRead(eeprom, DAY_HOUR)
  /\ day_minute' = EepromRead(eeprom, DAY_MINUTE)
  /\ day_volume' = EepromRead(eeprom, DAY_VOLUME)
  /\ evening_hour' = EepromRead(eeprom, EVENING_HOUR)
  /\ evening_minute' = EepromRead(eeprom, EVENING_MINUTE)
  /\ evening_volume' = EepromRead(eeprom, EVENING_VOLUME)
  /\ night_hour' = EepromRead(eeprom, NIGHT_HOUR)
  /\ night_minute' = EepromRead(eeprom, NIGHT_MINUTE)
  /\ night_volume' = IF variant = "TBC" THEN EepromRead(eeprom, NIGHT_VOLUME) ELSE 0
  /\ off_delay' = IF variant = "MCMC" THEN EepromRead(eeprom, OFF_DELAY) ELSE 0
  /\ rpm_thresh' = IF variant = "MCMC" THEN EepromRead(eeprom, RPM_THRESH) ELSE 0
  /\ now_hour' = 0 /\ now_minute' = 0
  /\ volume' = 0 /\ match_time' = 0 /\ scan_steps' = 0
  \* the servo globals and the Servo object as in InitServo
  /\ desired_servo_pos' = 0 /\ p_desired_servo_pos' = 0
  /\ servo_pos' = 0 /\ detach_timeout' = 0
  /\ attached' = FALSE /\ angle' = -1
  /\ call' = [destination |-> 0, direct_access |-> 0,
              attach_called |-> FALSE, detach_called |-> FALSE,
              write_called |-> FALSE, timeout_after_attach |-> 0]
  /\ pre' = [servo_pos |-> 0, detach_timeout |-> 0, attached |-> FALSE,
             p_desired_servo_pos |-> 0]
  /\ run_start' = 0 /\ run_calls' = 0 /\ run_mode' = "gradual"
  /\ since_reach' = -1 /\ reach_moved' = FALSE
  /\ stable_ticks' = 0
  \* the governor globals and the outputs as in InitGov
  /\ rotation' = 0 /\ rotation_trigger' = 0
  /\ crank_time' = 0 /\ p_crank_time' = 0 /\ ms_per_rotation' = 0
  /\ crank_speed_limit_count' = 0
  /\ lock_i' = 0 /\ millis' = 0
  /\ clutch' = "off" /\ mixer' = "on" /\ light' = "on"
  /\ switch' = "none" /\ p_switch' = "none"
  /\ p_count' = 0 /\ trig_log' = <<>> /\ gov_step' = "none" /\ lockouts' = 0
  /\ pc' = "booted"
  /\ UNCHANGED <<variant, eeprom>>

\* the first start, with the EEPROM as delivered: every cell is 255
InitStore ==
  /\ variant \in Variants
  /\ eeprom = [c \in Cells |-> UnsetByte]
  /\ day_hour = UnsetByte /\ day_minute = UnsetByte /\ day_volume = UnsetByte
  /\ evening_hour = UnsetByte /\ evening_minute = UnsetByte
  /\ evening_volume = UnsetByte
  /\ night_hour = UnsetByte /\ night_minute = UnsetByte
  /\ night_volume = (IF variant = "TBC" THEN UnsetByte ELSE 0)
  /\ off_delay = (IF variant = "MCMC" THEN UnsetByte ELSE 0)
  /\ rpm_thresh = (IF variant = "MCMC" THEN UnsetByte ELSE 0)
  /\ now_hour = 0 /\ now_minute = 0
  /\ volume = 0 /\ match_time = 0 /\ scan_steps = 0
  /\ InitServo
  /\ stable_ticks = 0
  /\ InitGov
  /\ pc = "booted"

NextStore ==
  \/ StoreSetCrankSpeed
  \/ StoreSetTriggerTimes
  \/ StoreSetVolume
  \/ Setup

SpecStore == InitStore /\ [][NextStore]_vars

(***************************************************************************)
(* Properties of set_volume_to_current_time (checked under SpecMatch)      *)
(***************************************************************************)
Periods == {DAY, EVENING, NIGHT}
EntryHour(p) == IF p = DAY THEN day_hour ELSE IF p = EVENING THEN evening_hour ELSE night_hour
EntryMinute(p) == IF p = DAY THEN day_minute ELSE IF p = EVENING THEN evening_minute ELSE night_minute
EntryVolume(p) == IF p = DAY THEN day_volume ELSE IF p = EVENING THEN evening_volume ELSE night_volume
MinutesPerDay == (LastHour + 1) * (LastMinute + 1)
ValidPeriods == {p \in Periods : ValidTime(EntryHour(p), EntryMinute(p))}
\* how many minutes before the time read the trigger time of p lies, modulo a day
Back(p) ==
  ((now_hour * (LastMinute + 1) + now_minute)
     - (EntryHour(p) * (LastMinute + 1) + EntryMinute(p))) % MinutesPerDay
AtNow(p) == EntryHour(p) = now_hour /\ EntryMinute(p) = now_minute
ExampleConfig ==
  /\ day_hour = 8 /\ day_minute = 0
  /\ evening_hour = 18 /\ evening_minute = 0
  /\ night_hour = 23 /\ night_minute = 0

\* C1: after a call with at least one valid entry, match_time names a valid
\* entry whose trigger time is the most recent one at or before the time read
\* (backward modulo 24 hours), volume is that entry's volume for Day and
\* Evening (and for Night in TBC), and the two examples of the specification
\* give Evening at 20:15 and Night at 07:59.
C1_MostRecentTrigger ==
  (pc = "done" /\ ValidPeriods # {}) =>
     /\ match_time \in ValidPeriods
     /\ \A p \in ValidPeriods : Back(match_time) <= Back(p)
     /\ (match_time \in {DAY, EVENING} \/ variant = "TBC")
           => volume = EntryVolume(match_time)
     /\ (ExampleConfig /\ now_hour = 20 /\ now_minute = 15) => match_time = EVENING
     /\ (ExampleConfig /\ now_hour = 7 /\ now_minute = 59) => match_time = NIGHT

C1_Witness ==
  /\ pc = "done" /\ ExampleConfig
  /\ now_hour = 7 /\ now_minute = 59
  /\ match_time = NIGHT /\ scan_steps = 8 * (LastMinute + 1) + LastMinute + 1

\* C2 as stated: at the trigger minute of Day the period is Day whatever
\* else is triggered at that minute, and at the trigger minute of Evening it
\* is Evening unless Day is triggered there too (Day > Evening > Night).
C2_Original_DayFirst ==
  pc = "done" =>
     /\ AtNow(DAY) => match_time = DAY
     /\ (AtNow(EVENING) /\ ~AtNow(DAY)) => match_time = EVENING
     /\ (AtNow(NIGHT) /\ ~AtNow(DAY) /\ ~AtNow(EVENING)) => match_time = NIGHT

\* C2 amended: when the time read equals the trigger time of an entry, the
\* period selected is an entry triggered at that minute, and among several
\* the one tested last wins: Night over Evening over Day.
C2_ExactMatch_NightFirst ==
  pc = "done" =>
     /\ AtNow(NIGHT) => match_time = NIGHT
     /\ (AtNow(EVENING) /\ ~AtNow(NIGHT)) => match_time = EVENING
     /\ (AtNow(DAY) /\ ~AtNow(EVENING) /\ ~AtNow(NIGHT)) => match_time = DAY
     /\ (\E p \in Periods : AtNow(p)) => (AtNow(match_time) /\ scan_steps = 1)

C2_Witness ==
  /\ pc = "done" /\ AtNow(DAY) /\ AtNow(EVENING) /\ AtNow(NIGHT)
  /\ match_time = NIGHT

\* C3: a call with at least one valid entry ends, after at most 1440
\* iterations of the loop, with match_time one of Day, Evening, Night.
C3_ScanTerminates ==
  (pc # "call" /\ ValidPeriods # {}) =>
     /\ pc = "done"
     /\ scan_steps \in 1..MinutesPerDay
     /\ match_time \in Periods

C3_Witness ==
  /\ pc = "done" /\ scan_steps = MinutesPerDay /\ MinutesPerDay = 1440
  /\ match_time = DAY /\ ValidPeriods = {DAY}

(***************************************************************************)
(* Properties of loop() of TBC (checked under SpecLoop)                    *)
(***************************************************************************)
C4_Within100 ==
  (pc = "loop" /\ stable_ticks >= 1) =>
     /\ match_time \in Periods
     /\ volume = EntryVolume(match_time)
     /\ desired_servo_pos = volume
     /\ Abs(servo_pos - volume) <= Max(0, PosMax - stable_ticks)

C4_Stays ==
  (pc = "loop" /\ stable_ticks >= 1 /\ servo_pos = volume /\ stable_ticks' >= 2)
     => servo_pos' = servo_pos

\* C4: in TBC, while loop() keeps running with the period and the
\* configuration unchanged, servo_pos is the volume configured for the period
\* after 100 passes at the latest, and once it is that volume it stays so for
\* as long as the period and the configuration stay.
C4_VolumeFollowsPeriod == []C4_Within100 /\ [][C4_Stays]_vars

C4_Witness ==
  /\ pc = "loop" /\ stable_ticks = PosMax
  /\ servo_pos = volume /\ pre.servo_pos # servo_pos
  /\ volume = EntryVolume(match_time)

(***************************************************************************)
(* Properties of smooth_servo (checked under SpecServo)                    *)
(***************************************************************************)
\* C5: in a run of calls with one target, all gradual, the distance to the
\* target after n calls is the distance at the start less n (0 once reached),
\* servo_pos stays between start and target, and the target is reached after
\* 100 calls at the latest; in a run of immediate calls servo_pos is the
\* target after the first call.
C5_Convergence ==
  /\ (run_mode = "gradual" /\ run_calls >= 1) =>
        /\ Abs(servo_pos - desired_servo_pos)
              = Max(0, Abs(run_start - desired_servo_pos) - run_calls)
        /\ servo_pos >= Min(run_start, desired_servo_pos)
        /\ servo_pos <= Max(run_start, desired_servo_pos)
        /\ run_calls >= PosMax => servo_pos = desired_servo_pos
  /\ (run_mode = "immediate" /\ run_calls >= 1) => servo_pos = desired_servo_pos
  /\ servo_pos \in 0..PosMax

C5_Witness ==
  /\ run_mode = "gradual" /\ run_start = 0 /\ desired_servo_pos = PosMax
  /\ run_calls = PosMax /\ servo_pos = PosMax /\ pre.servo_pos = PosMax - 1

\* C6: a gradual call changes servo_pos by at most 1, whatever the target
\* and whether or not it changed with this call.
C6_GradualStep ==
  call.direct_access = 0 => Abs(servo_pos - pre.servo_pos) <= 1

C6_Witness ==
  /\ call.direct_access = 0
  /\ call.destination # pre.p_desired_servo_pos
  /\ Abs(call.destination - pre.servo_pos) > 1
  /\ Abs(servo_pos - pre.servo_pos) = 1

\* C7 as stated: after the call that moved servo_pos onto the target, the
\* servo stays attached for the next 49 calls with that target and detach is
\* called 50 calls after it.
C7_Original_FiftyTicks ==
  reach_moved =>
     /\ since_reach < DetachAt => attached
     /\ call.detach_called => since_reach = DetachAt

\* C7 amended: detach is called on the call that brings detach_timeout to 50.
\* The call that moves servo_pos onto the target leaves the counter at 2, so
\* that is 48 calls after it, and the servo is attached until then; a call
\* that finds servo_pos at a new target leaves the counter at 1, and detach
\* comes 49 calls after it.  The servo then stays detached while the target
\* stays.
C7_DetachAfterArrival ==
  LET n == IF reach_moved THEN DetachAt - 2 ELSE DetachAt - 1
  IN /\ call.detach_called <=> since_reach = n
     /\ since_reach >= 0 => detach_timeout = Min(since_reach + (DetachAt - n), IdleLimit)
     /\ (reach_moved /\ since_reach < n) => attached
     /\ since_reach >= n => ~attached

C7_Witness ==
  /\ reach_moved /\ since_reach = DetachAt - 2
  /\ call.detach_called /\ ~attached /\ pre.attached
  /\ detach_timeout = DetachAt

\* C8: a call whose destination differs from the one of the previous call
\* attaches the servo and has the idle counter at 0 before it moves, and
\* leaves the servo attached; a call with the same destination neither
\* attaches nor resets the counter.
C8_AttachOnNewTarget ==
  /\ call.destination # pre.p_desired_servo_pos =>
        /\ call.attach_called
        /\ call.timeout_after_attach = 0
        /\ attached
        /\ p_desired_servo_pos = call.destination
  /\ call.destination = pre.p_desired_servo_pos =>
        /\ ~call.attach_called
        /\ call.timeout_after_attach = pre.detach_timeout
        /\ (attached => pre.attached)

C8_Witness ==
  /\ call.destination # pre.p_desired_servo_pos
  /\ ~pre.attached /\ pre.detach_timeout = IdleLimit
  /\ call.attach_called /\ attached /\ detach_timeout = 0

(***************************************************************************)
(* Properties of measure_crank_speed (checked under SpecGov)               *)
(***************************************************************************)
\* the last five rotation triggers since the last lockout ended all came
\* less than rpm_thresh after the trigger before them
FiveFast ==
  /\ Len(trig_log) = LockoutAt
  /\ \A i \in 1..Len(trig_log) : trig_log[i]

\* C9: the evaluation that registers the fifth fast rotation in a row
\* switches the clutch off and starts the lockout, and a lockout is in
\* progress only when the last five rotation triggers since the last lockout
\* ended were all faster than rpm_thresh.
C9_LockoutOnFifthFast ==
  /\ FiveFast => pc = "lockout"
  /\ pc = "lockout" =>
        /\ FiveFast
        /\ clutch = "off"
        /\ crank_speed_limit_count = LockoutAt
  /\ (pc = "lockout" /\ gov_step = "eval") =>
        /\ rotation_trigger = 1
        /\ ms_per_rotation < rpm_thresh
        /\ p_count = LockoutAt - 1
        /\ lock_i = off_delay

C9_Witness ==
  /\ pc = "lockout" /\ gov_step = "eval"
  /\ match_time = DAY /\ clutch = "off" /\ mixer = "on"
  /\ rotation_trigger = 1 /\ crank_speed_limit_count = LockoutAt

\* C10: an evaluation with a rotation trigger steps
\* crank_speed_limit_count by 1 when ms_per_rotation < rpm_thresh and sets
\* it to 0 otherwise, also when the interval equals the threshold; an
\* evaluation without a trigger leaves the count as it was.
C10_CountStrictlyFaster ==
  gov_step = "eval" =>
     /\ rotation_trigger = 1 =>
           /\ crank_time = millis
           /\ ms_per_rotation = crank_time - p_crank_time
           /\ crank_speed_limit_count =
                 IF ms_per_rotation < rpm_thresh THEN p_count + 1 ELSE 0
     /\ rotation_trigger = 0 => crank_speed_limit_count = p_count

C10_Witness ==
  /\ gov_step = "eval" /\ rotation_trigger = 1
  /\ ms_per_rotation = rpm_thresh
  /\ p_count >= 1 /\ crank_speed_limit_count = 0

\* in a lockout the clutch is off, and as many seconds have gone since the
\* lockout started as passes of the waiting loop are done
C11_LockoutHeld ==
  /\ pc = "lockout" =>
        /\ clutch = "off"
        /\ lock_i \in 0..off_delay
        /\ millis - crank_time = (off_delay - lock_i) * SecondMs
  /\ gov_step = "reset" =>
        /\ clutch = "off"
        /\ millis - crank_time = off_delay * SecondMs

\* a step that leaves the clutch on is a step of loop() outside a lockout
C11_NoEarlyOn ==
  clutch' = "on" => (pc = "loop" /\ pc' = "loop")

\* C11: from the start of a lockout the clutch stays off until all off_delay
\* waits of one second have elapsed; no step switches the clutch on between
\* the start of the lockout and its end, for every off_delay.
C11_ClutchOffUntilExpiry == []C11_LockoutHeld /\ [][C11_NoEarlyOn]_vars

C11_Witness ==
  /\ gov_step = "reset" /\ off_delay = 2 /\ match_time = DAY
  /\ clutch = "off" /\ millis - crank_time = 2 * SecondMs

\* a step taken in a lockout is a pass of the waiting loop, which leaves the
\* count and the program where they are, or, with all passes done, the end
\* of the lockout, which sets the count to 0
C12_LockoutStep ==
  pc = "lockout" =>
     \/ /\ lock_i > 0 /\ lock_i' = lock_i - 1 /\ pc' = "lockout"
        /\ crank_speed_limit_count' = crank_speed_limit_count
     \/ /\ lock_i = 0 /\ pc' = "loop" /\ crank_speed_limit_count' = 0
        /\ lockouts' >= 1

\* the count never exceeds the number of rotation triggers since the last
\* lockout ended, and an evaluation with fewer than five of them starts no
\* lockout
C12_FiveMore ==
  /\ crank_speed_limit_count <= Len(trig_log)
  /\ Len(trig_log) < LockoutAt => pc = "loop"

\* C12: a lockout runs to completion and then returns the governor to Idle
\* with crank_speed_limit_count = 0; nothing in a lockout starts a second
\* one; after it five further fast rotations are needed for the next (a fast
\* rotation right after the lockout starts none).
C12_LockoutCompletes ==
  /\ [][C12_LockoutStep]_vars
  /\ []C12_FiveMore
  /\ (pc = "lockout") ~> (pc = "loop" /\ gov_step = "reset"
                            /\ crank_speed_limit_count = 0)

C12_Witness ==
  /\ lockouts = 1 /\ gov_step = "eval" /\ pc = "loop"
  /\ rotation_trigger = 1 /\ ms_per_rotation < rpm_thresh
  /\ p_count = 0 /\ crank_speed_limit_count = 1

\* C13: in MCMC, at the end of every pass of loop() whose period is Night,
\* the clutch, the mixer relay and the light relay are off; at the end of
\* every pass whose period is Day or Evening and in which no lockout fired,
\* all three are on.
C13_OutputsFollowPeriod ==
  (variant = "MCMC" /\ pc = "loop" /\ gov_step \in {"eval", "reset"}) =>
     /\ match_time = NIGHT =>
           (clutch = "off" /\ mixer = "off" /\ light = "off")
     /\ (match_time \in {DAY, EVENING} /\ gov_step = "eval") =>
           (clutch = "on" /\ mixer = "on" /\ light = "on")

C13_Witness ==
  /\ variant = "MCMC" /\ pc = "loop" /\ gov_step = "eval"
  /\ match_time = NIGHT /\ rotation_trigger = 1 /\ crank_speed_limit_count >= 2
  /\ clutch = "off" /\ mixer = "off" /\ light = "off"

\* C14 as stated: while a lockout is in progress the clutch, the light relay
\* and the mixer relay are all off, whatever the period.
C14_Original_AllOff ==
  pc = "lockout" => (clutch = "off" /\ mixer = "off" /\ light = "off")

\* C14 amended: while a lockout is in progress the clutch is off, whatever
\* the period; the mixer relay and the light relay are not touched by the
\* lockout and stay as the period of the pass set them: on in Day and
\* Evening, off at Night.
C14_LockoutGatesClutch ==
  pc = "lockout" =>
     /\ clutch = "off"
     /\ mixer = (IF match_time = NIGHT THEN "off" ELSE "on")
     /\ light = (IF match_time = NIGHT THEN "off" ELSE "on")

C14_Witness ==
  /\ pc = "lockout" /\ gov_step = "wait" /\ lock_i = 0 /\ off_delay = 2
  /\ match_time = EVENING
  /\ clutch = "off" /\ mixer = "on" /\ light = "on"

(***************************************************************************)
(* set_volume_to_current_time as a function (checked under SpecMatch)      *)
(***************************************************************************)
\* C16 as stated: the results of a call are the same for every value volume
\* had before the call.
C16_Original_Pure ==
  pc = "done" =>
     \A v \in OldVolumes :
        \E r \in {ScanResult(now_hour, now_minute, v)} :
           r.match_time = match_time /\ r.volume = volume

\* MCMC assigns no volume for Night: with Night selected and neither Day nor
\* Evening triggered at the minute of Night, the call leaves volume as it was
KeepsVolume ==
  /\ variant = "MCMC" /\ match_time = NIGHT
  /\ ~(day_hour = night_hour /\ day_minute = night_minute)
  /\ ~(evening_hour = night_hour /\ evening_minute = night_minute)

\* the volume the configuration gives for the period selected
SelectedVolume ==
  IF variant = "TBC" \/ match_time # NIGHT THEN EntryVolume(match_time)
  ELSE IF evening_hour = night_hour /\ evening_minute = night_minute
       THEN evening_volume ELSE day_volume

C16_Results ==
  pc = "done" =>
     /\ ~KeepsVolume => volume = SelectedVolume
     /\ \A v \in OldVolumes :
           \E r \in {ScanResult(now_hour, now_minute, v)} :
              /\ r.match_time = match_time
              /\ r.steps = scan_steps
              /\ r.volume = IF KeepsVolume THEN v ELSE volume

C16_NoSideEffect ==
  pc = "call" =>
     UNCHANGED <<cfgVars, servoVars, govCfg, govVars, outVars, eeprom>>

\* C16 amended: match_time after a call depends on the time read and the
\* entries alone, whatever match_time and volume were before, and so does
\* volume, except in MCMC when Night is selected and neither Day nor Evening
\* shares Night's trigger minute: volume then keeps the value it had before
\* the call.  A call that returns changes nothing but match_time and volume.
C16_PureButNightVolume == []C16_Results /\ [][C16_NoSideEffect]_vars

C16_Witness ==
  /\ pc = "done" /\ variant = "MCMC" /\ KeepsVolume
  /\ volume = 55 /\ scan_steps > 1

\* C17: a call ends whatever the entries are, also when no entry is
\* triggered at any minute of the day.
C17_AlwaysTerminates ==
  pc # "call" => pc = "done"

\* the valid entries whose trigger time is the nearest before the time read
Nearest ==
  {p \in ValidPeriods : \A q \in ValidPeriods : Back(p) <= Back(q)}

\* C18: the scan stops at the first minute, going back, at which an entry is
\* triggered; of the entries triggered at that minute the one tested last in
\* the order Day, Evening, Night is selected, and an entry triggered at a
\* minute further back is never selected, whatever its place in the order.
C18_LastTestedWins ==
  pc = "done" =>
     /\ match_time \in Nearest
     /\ \A p \in Nearest : p <= match_time
     /\ scan_steps = Back(match_time) + 1
     /\ (NIGHT \in Nearest) = (match_time = NIGHT)
     /\ (EVENING \in Nearest /\ NIGHT \notin Nearest) = (match_time = EVENING)

C18_Witness ==
  /\ pc = "done" /\ Nearest = {DAY, EVENING} /\ NIGHT \in ValidPeriods
  /\ match_time = EVENING /\ scan_steps > 1

\* C27 as stated: in MCMC a call that returns Night leaves volume as it was
\* before the call, for every configuration.
C27_Original_NightKeeps ==
  (pc = "done" /\ variant = "MCMC" /\ match_time = NIGHT) =>
     \A v \in OldVolumes :
        \E r \in {ScanResult(now_hour, now_minute, v)} : r.volume = v

\* C27 amended: in MCMC a call that returns Night leaves volume as it was
\* before the call unless Day or Evening is triggered at the minute of
\* Night: the tests of Day and Evening at that minute then assign their
\* volume before Night is selected, Evening's if both are.
C27_NightKeepsUnlessTie ==
  (pc = "done" /\ variant = "MCMC" /\ match_time = NIGHT) =>
     /\ \A v \in OldVolumes :
           \E r \in {ScanResult(now_hour, now_minute, v)} :
              r.volume =
                 IF evening_hour = night_hour /\ evening_minute = night_minute
                 THEN evening_volume
                 ELSE IF day_hour = night_hour /\ day_minute = night_minute
                 THEN day_volume
                 ELSE v
     /\ volume \in
           (IF evening_hour = night_hour /\ evening_minute = night_minute
            THEN {evening_volume}
            ELSE IF day_hour = night_hour /\ day_minute = night_minute
            THEN {day_volume}
            ELSE OldVolumes)

C27_Witness ==
  /\ pc = "done" /\ variant = "MCMC" /\ match_time = NIGHT
  /\ day_hour = night_hour /\ day_minute = night_minute
  /\ ~(evening_hour = night_hour /\ evening_minute = night_minute)
  /\ volume = day_volume /\ scan_steps > 1

(***************************************************************************)
(* Properties of the configuration store (checked under SpecStore)         *)
(***************************************************************************)
\* C15: every value a menu commits is read back by setup() as it was
\* written: a reset leaves the trigger times, the volumes, rpm_thresh and
\* off_delay as the menus last set them.
C15_RoundTrip ==
  [][pc' = "booted" =>
        /\ day_hour' = day_hour /\ day_minute' = day_minute
        /\ evening_hour' = evening_hour /\ evening_minute' = evening_minute
        /\ night_hour' = night_hour /\ night_minute' = night_minute
        /\ day_volume' = day_volume /\ evening_volume' = evening_volume
        /\ (variant = "TBC" => night_volume' = night_volume)
        /\ (variant = "MCMC" => (rpm_thresh' = rpm_thresh
                                   /\ off_delay' = off_delay))]_vars

(***************************************************************************)
(* Further properties of smooth_servo (checked under SpecServo)            *)
(***************************************************************************)
\* C19: after every call, for any sequence of targets and modes, a servo
\* that is not at its target is attached; the idle counter has not started
\* and the call did not detach.
C19_AttachedWhileMoving ==
  servo_pos # desired_servo_pos =>
     /\ attached
     /\ detach_timeout = 0
     /\ ~call.detach_called

C19_Witness ==
  /\ servo_pos # desired_servo_pos /\ call.direct_access = 0
  /\ ~pre.attached /\ pre.detach_timeout = IdleLimit
  /\ attached /\ Abs(servo_pos - desired_servo_pos) >= DetachAt

\* C24 as stated: detach_timeout is within 0..50 in every reachable state.
C24_Original_AtMostFifty ==
  detach_timeout \in 0..DetachAt

\* C24 amended: detach_timeout is within 0..51 in every reachable state: with
\* servo_pos at the target it is stepped while it is below 51, one past the
\* value 50 at which detach is called, and stays at 51 until the target
\* changes.
C24_CounterRange ==
  /\ detach_timeout \in 0..IdleLimit
  /\ (pre.detach_timeout = IdleLimit
        /\ call.destination = pre.p_desired_servo_pos)
        => (detach_timeout = IdleLimit /\ ~call.detach_called)
  /\ (pre.detach_timeout = DetachAt
        /\ call.destination = pre.p_desired_servo_pos)
        => detach_timeout = IdleLimit

C24_Witness ==
  /\ detach_timeout = IdleLimit /\ pre.detach_timeout = DetachAt
  /\ servo_pos = desired_servo_pos /\ ~attached

\* the command written for servo_pos: 170 less 1.42 a unit, the fraction of
\* the product dropped
C25_Command ==
  angle # -1 =>
     /\ angle \in AngleAtMax..AngleAtZero
     /\ angle = AngleAtZero
                  - (((AngleAtZero - AngleAtMax) * servo_pos) \div PosMax)
     /\ servo_pos = 0 => angle = AngleAtZero
     /\ servo_pos = PosMax => angle = AngleAtMax

C25_Monotone ==
  (angle # -1 /\ angle' # -1) =>
     /\ servo_pos' > servo_pos => angle' <= angle
     /\ servo_pos' < servo_pos => angle' >= angle

\* C25: the command written to the servo for servo_pos in 0..100 lies in
\* 28..170, is 170 for 0 and 28 for 100, and a higher servo_pos never gives
\* a higher command.
C25_InvertedLinear == []C25_Command /\ [][C25_Monotone]_vars

C25_Witness ==
  /\ call.write_called /\ servo_pos = PosMax /\ angle = AngleAtMax
  /\ pre.servo_pos = PosMax - 1 /\ call.direct_access = 0

\* after a call: a servo not at its target has the counter at 0; detach was
\* called exactly if the call ended with the counter at 50; 49 calls after
\* the target was reached, at the latest, the servo is detached
C26_AfterCall ==
  /\ servo_pos # desired_servo_pos => detach_timeout = 0
  /\ call.detach_called = (detach_timeout = DetachAt)
  /\ since_reach >= 0 => detach_timeout >= 1
  /\ since_reach >= DetachAt - 1 => (~attached /\ detach_timeout >= DetachAt)

\* a call with the target reached and unchanged steps the counter by one up
\* to 51, so the counter passes through 50 and no call takes it from below
\* 50 to above 50
C26_Step ==
  /\ (servo_pos = desired_servo_pos
        /\ call'.destination = p_desired_servo_pos)
        => detach_timeout' = Min(detach_timeout + 1, IdleLimit)
  /\ detach_timeout' > DetachAt => detach_timeout >= DetachAt

\* C26: in every stretch in which the target is reached and stays, the servo
\* is detached after 49 calls at the latest and detach is called on exactly
\* one call of the stretch, the one that ends with the counter at 50; the
\* two steps of the arrival call do not take the counter over 50, as the
\* counter is 0 whenever servo_pos is not at the target.
C26_DetachOnce == []C26_AfterCall /\ [][C26_Step]_vars

C26_Witness ==
  /\ reach_moved /\ since_reach = DetachAt - 1
  /\ detach_timeout = IdleLimit /\ pre.detach_timeout = DetachAt
  /\ ~call.detach_called /\ ~attached /\ ~pre.attached

(***************************************************************************)
(* Further properties of measure_crank_speed (checked under SpecGov)       *)
(***************************************************************************)
\* after an evaluation there is a trigger exactly when the switch was read
\* closed now and not read closed by the evaluation before
C20_Edge ==
  gov_step = "eval" =>
     /\ (rotation_trigger = 1) = (switch = "closed" /\ p_switch # "closed")
     /\ rotation = (IF switch = "closed" THEN 1 ELSE 0)

\* the times and the count change only with a trigger or the reset
C20_ChangeOnlyOnTrigger ==
  (\/ crank_time' # crank_time
   \/ p_crank_time' # p_crank_time
   \/ ms_per_rotation' # ms_per_rotation
   \/ crank_speed_limit_count' # crank_speed_limit_count)
     => \/ gov_step' = "eval" /\ rotation_trigger' = 1
        \/ gov_step' = "reset"

\* C20: an evaluation produces a rotation trigger if and only if it reads
\* the switch closed and the evaluation before read it open (or there was
\* none); a switch held closed triggers once; crank_time, ms_per_rotation and
\* crank_speed_limit_count change only in an evaluation with a trigger or in
\* the reset that ends a lockout.
C20_EdgeTriggered == []C20_Edge /\ [][C20_ChangeOnlyOnTrigger]_vars

C20_Witness ==
  /\ gov_step = "eval" /\ switch = "closed" /\ p_switch = "closed"
  /\ rotation_trigger = 0 /\ crank_time > 0
  /\ crank_speed_limit_count = p_count /\ p_count >= 1

\* the pass of loop() that follows the end of a lockout, in Day or Evening
C22_NextPass ==
  (gov_step = "reset" /\ gov_step' = "eval" /\ match_time' \in {DAY, EVENING})
     => (clutch = "off" /\ clutch' = "on" /\ pc' = "loop")

\* C22: after a lockout has ended the clutch is switched on again by the
\* next pass of loop() whose period is Day or Evening, with no input from
\* the operator, and that pass starts no new lockout.
C22_AutoRecovers == [][C22_NextPass]_vars

C22_Witness ==
  /\ lockouts = 1 /\ gov_step = "eval" /\ off_delay = 2
  /\ rotation_trigger = 0 /\ millis - crank_time < 2 * SecondMs + 2 * 40
  /\ match_time = EVENING /\ clutch = "on"

\* C23: when three evaluations in a row read the switch closed, open,
\* closed, the third registers no rotation and does not step
\* crank_speed_limit_count up.
C23_BounceNotCounted ==
  [][(/\ gov_step = "eval" /\ gov_step' = "eval"
      /\ p_switch = "closed" /\ switch = "open" /\ switch' = "closed")
        => /\ rotation_trigger' = 0
           /\ crank_speed_limit_count' <= crank_speed_limit_count]_vars

\* C28: crank_speed_limit_count never exceeds 5; a count of 5 is the count
\* of a lockout in progress and is reset to 0 before measure_crank_speed
\* returns, so the count is within 0..4 whenever an evaluation has ended.
C28_CountBelowFive ==
  /\ crank_speed_limit_count \in 0..LockoutAt
  /\ crank_speed_limit_count = LockoutAt => pc = "lockout"
  /\ pc = "loop" => crank_speed_limit_count \in 0..(LockoutAt - 1)
  /\ gov_step = "reset" => (crank_speed_limit_count = 0 /\ p_count = LockoutAt)

C28_Witness ==
  /\ pc = "loop" /\ gov_step = "reset" /\ off_delay = 1
  /\ p_count = LockoutAt /\ crank_speed_limit_count = 0
  /\ millis - crank_time = SecondMs

(***************************************************************************)
(* Properties of loop() of MCMC (checked under SpecMcmc)                   *)
(***************************************************************************)
C21_Frozen ==
  pc = "lockout" =>
     UNCHANGED <<match_time, volume, servo_pos, desired_servo_pos,
                 detach_timeout, attached, angle, rotation, crank_time>>

\* C21: every step taken while a lockout is in progress leaves match_time,
\* volume, servo_pos, desired_servo_pos, detach_timeout, the attachment of
\* the servo, rotation and crank_time as they were when it started; a servo
\* on its way to the target stays attached where it is.
C21_NothingAdvances == [][C21_Frozen]_vars

C21_Witness ==
  /\ pc = "lockout" /\ gov_step = "wait" /\ lock_i = 0 /\ off_delay = 2
  /\ attached /\ servo_pos # desired_servo_pos /\ servo_pos > 0
  /\ detach_timeout = 0 /\ rotation = 1

====
